---- MODULE Spec2Model ----
(***************************************************************************)
(* Model of src/server.js: the in-memory QR token store, the issuance      *)
(* handler POST /generate-qr and the verification handler GET /verify-qr.  *)
(* Every handler is an async function: the code between two awaits runs    *)
(* atomically on the Node.js event loop, so each action below is one such  *)
(* run-to-completion segment.                                              *)
(***************************************************************************)
EXTENDS Integers, Sequences, FiniteSets, TLC

\* ------------------------------------------------------------------ bounds
\* Requests are numbered in the order of their arrival, and the clock starts
\* at 0 and advances one minute at a time.
MaxTokens == 1      \* distinct uuids the generator can hand out
MaxReqs == 2        \* verification requests in one execution
MaxTicks == 2       \* times the clock advances

\* --------------------------------------------------------------- constants
\* line 60: `* 60 * 1000`, minutes to milliseconds
MsPerMinute == 60 * 1000

\* IEEE NaN (parseInt of a non-number, ToNumber(undefined)), encoded as an
\* integer no timestamp of the model can take
NaN == -999999999

\* the three status strings of the source
StatusPending == "Pending"      \* line 63   "대기 중"
StatusExpired == "Expired"      \* line 118  "만료됨"
StatusVerified == "Verified"    \* line 163  "인증 성공"

\* ------------------------------------------------------------ JS values
JsUndefined == [t |-> "undefined"]
JsString(s) == [t |-> "string", s |-> s]

\* ToBoolean on the values the request body can hold: undefined and "" are falsy
Truthy(v) == v.t = "string" /\ Len(v.s) > 0

Digits == <<"0", "1", "2", "3", "4", "5", "6", "7", "8", "9">>
IsDigit(c) == \E i \in 1..10 : Digits[i] = c
DigitVal(c) == (CHOOSE i \in 1..10 : Digits[i] = c) - 1

RECURSIVE LeadingDigits(_, _)
\* value of the longest prefix of digits of s, continuing from acc
LeadingDigits(s, acc) ==
    IF s = <<>> \/ ~IsDigit(Head(s)) THEN acc
    ELSE LeadingDigits(Tail(s), acc * 10 + DigitVal(Head(s)))

\* parseInt(string): optional sign, then the leading digits; NaN when none
parseInt(s) ==
    LET neg == s # <<>> /\ Head(s) = "-"
        body == IF s # <<>> /\ Head(s) \in {"-", "+"} THEN Tail(s) ELSE s
    IN  IF body = <<>> \/ ~IsDigit(Head(body)) THEN NaN
        ELSE IF neg THEN 0 - LeadingDigits(body, 0) ELSE LeadingDigits(body, 0)

\* JS arithmetic and comparison with NaN: NaN is contagious and compares false
JsMul(a, b) == IF a = NaN \/ b = NaN THEN NaN ELSE a * b
JsAdd(a, b) == IF a = NaN \/ b = NaN THEN NaN ELSE a + b
JsGt(a, b) == a # NaN /\ b # NaN /\ a > b

\* replace without the g flag: only the first hyphen is removed
StripHyphens_firstOnly(s) ==
    LET idx == {i \in 1..Len(s) : s[i] = "-"} IN
    IF idx = {} THEN s
    ELSE LET k == CHOOSE i \in idx : \A j \in idx : i <= j
         IN  SubSeq(s, 1, k - 1) \o SubSeq(s, k + 1, Len(s))

\* line 55: phoneNumber.replace(/-/g, '')
StripHyphens(s) == SelectSeq(s, LAMBDA c : c # "-")

\* line 129: new Date().toISOString()
toISOString(ms) == <<"ISO-8601", ms>>

\* ------------------------------------------------------------ input sets
\* uuids the generator can return
Tokens == {<<"uuid", i>> : i \in 1..MaxTokens}
\* a query string without token (or with an empty one)
NoToken == <<>>
\* a key every plain object inherits from Object.prototype
ProtoKey == <<"constructor">>
QueryTokens == Tokens \cup {NoToken, ProtoKey}

PhoneInputs == {JsUndefined, JsString(<<>>), JsString(<<"0", "1", "-", "2">>)}
ValidTimeInputs == {JsUndefined, JsString(<<"1">>)}

Reqs == 1..MaxReqs

VARIABLES
    qrTokenStore,   \* line 32: token -> record (own properties of the object)
    now,            \* Date.now()
    req,            \* the verification requests: position and outcome of each
    gen,            \* the issuance request in progress
    qr_events,      \* the external log: events whose POST was answered
    smsSent         \* messages accepted by the SMS provider

vars == <<qrTokenStore, now, req, gen, qr_events, smsSent>>

\* --------------------------------------------------------------- the store
\* a generator that can return a token it returned before
uuidv4_colliding == Tokens

\* line 59: uuidv4() returns a token that was never returned before (every
\* token returned so far is a key of the store, which never loses a key).
\* Tokens are opaque, so of the unused ones the model takes the first.
Unused == Tokens \ DOMAIN qrTokenStore
uuidv4 == {t \in Unused : \A u \in Unused : t[2] <= u[2]}

\* lines 60-65: the record stored at issuance
NewRecord(phoneNumber, validTime) ==
    [phoneNumber |-> phoneNumber,
     expiresAt |-> JsAdd(now, JsMul(JsMul(parseInt(validTime), 60), 1000)),
     isValid |-> TRUE,
     purpose |-> "Visitor",
     device_id |-> "device",
     status |-> StatusPending]

\* what every plain object inherits under "constructor": a function object,
\* truthy, without any of the record's fields (each reads as undefined)
Inherited ==
    [phoneNumber |-> <<"undefined">>,
     expiresAt |-> NaN,
     isValid |-> FALSE,
     purpose |-> "undefined",
     device_id |-> "undefined",
     status |-> "undefined"]

\* line 110: qrTokenStore[token] finds own and inherited properties
Found(token) == token \in DOMAIN qrTokenStore \/ token = ProtoKey
Lookup(token) ==
    IF token \in DOMAIN qrTokenStore THEN qrTokenStore[token] ELSE Inherited

\* the expiry check with >= in place of >
IsExpired_inclusive(tokenData) ==
    tokenData.expiresAt # NaN /\ now >= tokenData.expiresAt

\* line 116: Date.now() > tokenData.expiresAt
IsExpired(tokenData) == JsGt(now, tokenData.expiresAt)

\* MarkExpired without line 117
MarkExpired_keepsValid(tokenData) ==
    [tokenData EXCEPT !.status = StatusExpired]

\* lines 117-118
MarkExpired(tokenData) ==
    [tokenData EXCEPT !.isValid = FALSE, !.status = StatusExpired]

\* the record replaced by a new object that holds only the status
Finalize_replacesRecord(tokenData) ==
    [Inherited EXCEPT !.status = StatusVerified]

\* lines 162-163
Finalize(tokenData) ==
    [tokenData EXCEPT !.isValid = FALSE, !.status = StatusVerified]

\* lines 147-157: externalEventPayload (token: which record it was built from)
Payload(token, tokenData, currentTimestamp) ==
    [token |-> token,
     client |-> [device_id |-> tokenData.device_id],
     data |-> [phone |-> tokenData.phoneNumber,
               purpose |-> tokenData.purpose,
               requested_at |-> currentTimestamp,
               status |-> tokenData.status]]

\* ------------------------------------------------------------ the requests
\* pc: position of the handler; requested_at, payload: its locals while it
\* runs; res: the status it sent (0: none); exit: the source line where it
\* ended; err: the exception that left it
NoPayload == [token |-> NoToken]
IdleReq == [pc |-> "idle", token |-> NoToken, requested_at |-> toISOString(0),
            payload |-> NoPayload, res |-> 0, exit |-> 0, err |-> "none"]
IdleGen == [pc |-> "idle", token |-> NoToken, phoneNumber |-> <<>>, res |-> 0]

\* res.status(code).send(...) at source line `line` ends the handler
Respond(r, token, code, line) ==
    [req EXCEPT ![r] = [IdleReq EXCEPT !.pc = "done", !.token = token,
                                       !.res = code, !.exit = line]]

\* an exception leaves the async handler at `line`: the handler sends nothing
Reject(r, line, error) ==
    [req EXCEPT ![r] = [IdleReq EXCEPT !.pc = "done", !.token = req[r].token,
                                       !.exit = line, !.err = error]]

Init ==
    /\ qrTokenStore = [t \in {} |-> Inherited]
    /\ now = 0
    /\ req = [r \in Reqs |-> IdleReq]
    /\ gen = IdleGen
    /\ qr_events = <<>>
    /\ smsSent = {}

\* the clock advances
Tick ==
    /\ now < MaxTicks * MsPerMinute
    /\ now' = now + MsPerMinute
    /\ UNCHANGED <<qrTokenStore, req, gen, qr_events, smsSent>>

\* ---------------------------------------------------- POST /generate-qr
\* GenerateStart with a validation that looks at phoneNumber only
GenerateStart_phoneOnly(phoneNumber, validTime) ==
    /\ gen.pc = "idle"
    /\ IF ~Truthy(phoneNumber)
       THEN /\ gen' = [IdleGen EXCEPT !.res = 400]
            /\ UNCHANGED qrTokenStore
       ELSE \E token \in uuidv4 :
            LET phone == StripHyphens(phoneNumber.s)
                text == IF validTime.t = "string" THEN validTime.s ELSE <<>>
            IN
            /\ qrTokenStore' =
                 [t \in DOMAIN qrTokenStore \cup {token} |->
                    IF t = token THEN NewRecord(phone, text)
                    ELSE qrTokenStore[t]]
            /\ gen' = [pc |-> "awaitQr", token |-> token,
                       phoneNumber |-> phone, res |-> 0]
    /\ UNCHANGED <<now, req, qr_events, smsSent>>

\* lines 49-74: validation, normalisation, the store write, up to the first await
\* (a valid request needs one of the MaxTokens uuids)
GenerateStart(phoneNumber, validTime) ==
    /\ gen.pc = "idle"
    /\ IF ~Truthy(phoneNumber) \/ ~Truthy(validTime)
       THEN /\ gen' = [IdleGen EXCEPT !.res = 400]
            /\ UNCHANGED qrTokenStore
       ELSE \E token \in uuidv4 :
            LET phone == StripHyphens(phoneNumber.s) IN
            /\ qrTokenStore' =
                 [t \in DOMAIN qrTokenStore \cup {token} |->
                    IF t = token THEN NewRecord(phone, validTime.s)
                    ELSE qrTokenStore[t]]
            /\ gen' = [pc |-> "awaitQr", token |-> token,
                       phoneNumber |-> phone, res |-> 0]
    /\ UNCHANGED <<now, req, qr_events, smsSent>>

\* lines 74-78: qrcode.toDataURL resolved, sendOne is called
GenerateQrOk ==
    /\ gen.pc = "awaitQr"
    /\ gen' = [gen EXCEPT !.pc = "awaitSms"]
    /\ UNCHANGED <<qrTokenStore, now, req, qr_events, smsSent>>

\* lines 74, 86-92: qrcode.toDataURL rejected
GenerateQrFail ==
    /\ gen.pc = "awaitQr"
    /\ gen' = [IdleGen EXCEPT !.res = 500]
    /\ UNCHANGED <<qrTokenStore, now, req, qr_events, smsSent>>

\* lines 78-85: the message was sent, the result page is rendered
GenerateSmsOk ==
    /\ gen.pc = "awaitSms"
    /\ smsSent' = smsSent \cup {[to |-> gen.phoneNumber, token |-> gen.token]}
    /\ gen' = [IdleGen EXCEPT !.res = 200]
    /\ UNCHANGED <<qrTokenStore, now, req, qr_events>>

\* GenerateSmsFail with the store write rolled back
GenerateSmsFail_rollsBack ==
    /\ gen.pc = "awaitSms"
    /\ gen' = [IdleGen EXCEPT !.res = 500]
    /\ qrTokenStore' =
         [t \in DOMAIN qrTokenStore \ {gen.token} |-> qrTokenStore[t]]
    /\ UNCHANGED <<now, req, qr_events, smsSent>>

\* lines 78, 86-92: sendOne rejected
GenerateSmsFail ==
    /\ gen.pc = "awaitSms"
    /\ gen' = [IdleGen EXCEPT !.res = 500]
    /\ UNCHANGED <<qrTokenStore, now, req, qr_events, smsSent>>

\* ------------------------------------------------------- GET /verify-qr
\* Checks with the invalid-flag checks moved in front of the expiry check
Checks_validFirst(token) ==
    IF token = NoToken THEN 106
    ELSE IF ~Found(token) THEN 114
    ELSE IF ~Lookup(token).isValid THEN 122
    ELSE IF Lookup(token).status # StatusPending THEN 125
    ELSE IF IsExpired(Lookup(token)) THEN 119
    ELSE 133

\* lines 105-126: the checks in the order of the source; the value is the
\* source line where the handler responds, or 133 (the call of axios.get)
\* when every check passes
Checks(token) ==
    IF token = NoToken THEN 106
    ELSE IF ~Found(token) THEN 114
    ELSE IF IsExpired(Lookup(token)) THEN 119
    ELSE IF ~Lookup(token).isValid THEN 122
    ELSE IF Lookup(token).status # StatusPending THEN 125
    ELSE 133

\* the HTTP status sent at each of these lines
StatusAt(line) ==
    CASE line = 106 -> 400
      [] line = 114 -> 404
      [] line = 119 -> 410
      [] line = 122 -> 409
      [] line = 125 -> 409

\* lines 102-133: the checks, up to the call of axios.get
VerifyStart(r, token) ==
    LET line == Checks(token) IN
    /\ req[r].pc = "idle"
    \* requests are numbered in the order of their arrival
    /\ \A q \in Reqs : q < r => req[q].pc # "idle"
    /\ req' = IF line = 133
              THEN [req EXCEPT ![r] =
                      [IdleReq EXCEPT !.pc = "awaitGet", !.token = token,
                                      !.requested_at = toISOString(now)]]
              ELSE Respond(r, token, StatusAt(line), line)
    /\ qrTokenStore' = IF line = 119
                       THEN [qrTokenStore EXCEPT ![token] = MarkExpired(@)]
                       ELSE qrTokenStore
    /\ UNCHANGED <<now, gen, qr_events, smsSent>>

\* VerifyGetOk with the record finalized before the event is posted
VerifyGetOk_finalizesEarly(r) ==
    /\ req[r].pc = "awaitGet"
    /\ req' = [req EXCEPT ![r].pc = "awaitPost",
                          ![r].payload = Payload(req[r].token, Lookup(req[r].token),
                                                 req[r].requested_at)]
    /\ qrTokenStore' =
         [qrTokenStore EXCEPT ![req[r].token] = Finalize(@)]
    /\ UNCHANGED <<now, gen, qr_events, smsSent>>

\* lines 133-159: axios.get resolved; the payload is built from the record as
\* it is now and axios.post is called
VerifyGetOk(r) ==
    /\ req[r].pc = "awaitGet"
    /\ req' = [req EXCEPT ![r].pc = "awaitPost",
                          ![r].payload = Payload(req[r].token, Lookup(req[r].token),
                                                 req[r].requested_at)]
    /\ UNCHANGED <<qrTokenStore, now, gen, qr_events, smsSent>>

\* VerifyGetFail with the token consumed by the failed attempt
VerifyGetFail_consumes(r) ==
    /\ req[r].pc = "awaitGet"
    /\ req' = Reject(r, 140, "Error")
    /\ qrTokenStore' =
         [qrTokenStore EXCEPT ![req[r].token].isValid = FALSE]
    /\ UNCHANGED <<now, gen, qr_events, smsSent>>

\* lines 137-141: axios.get rejected; the handler throws a new Error
VerifyGetFail(r) ==
    /\ req[r].pc = "awaitGet"
    /\ req' = Reject(r, 140, "Error")
    /\ UNCHANGED <<qrTokenStore, now, gen, qr_events, smsSent>>

\* lines 159-167: axios.post resolved (the log holds the event); the record is
\* finalized and the success page is sent
VerifyPostOk(r) ==
    /\ req[r].pc = "awaitPost"
    /\ qr_events' = Append(qr_events, req[r].payload)
    /\ qrTokenStore' =
         [qrTokenStore EXCEPT ![req[r].token] = Finalize(@)]
    /\ req' = Respond(r, req[r].token, 200, 165)
    /\ UNCHANGED <<now, gen, smsSent>>

\* VerifyPostFail with the record finalized although the event was not posted
VerifyPostFail_finalizes(r) ==
    /\ req[r].pc = "awaitPost"
    /\ req' = Reject(r, 159, "AxiosError")
    /\ qrTokenStore' =
         [qrTokenStore EXCEPT ![req[r].token] = Finalize(@)]
    /\ UNCHANGED <<now, gen, qr_events, smsSent>>

\* line 159: axios.post rejected; the AxiosError leaves the handler
VerifyPostFail(r) ==
    /\ req[r].pc = "awaitPost"
    /\ req' = Reject(r, 159, "AxiosError")
    /\ UNCHANGED <<qrTokenStore, now, gen, qr_events, smsSent>>

Next ==
    \/ Tick
    \/ \E p \in PhoneInputs, v \in ValidTimeInputs : GenerateStart(p, v)
    \/ GenerateQrOk
    \/ GenerateQrFail
    \/ GenerateSmsOk
    \/ GenerateSmsFail
    \/ \E r \in Reqs, token \in QueryTokens : VerifyStart(r, token)
    \/ \E r \in Reqs : VerifyGetOk(r)
    \/ \E r \in Reqs : VerifyGetFail(r)
    \/ \E r \in Reqs : VerifyPostOk(r)
    \/ \E r \in Reqs : VerifyPostFail(r)

Spec == Init /\ [][Next]_vars

\* ------------------------------------------- issuance with wider inputs
\* The same handlers, started after one issuance has completed at time 0
\* (its record is in the store, its message was sent), with more request
\* bodies for POST /generate-qr and one verification request.
EarlierToken == <<"uuid", 0>>
PhoneInputsWide ==
    PhoneInputs \cup {JsString(<<"-", "7", "-">>)}
ValidTimeInputsWide ==
    ValidTimeInputs \cup {JsString(<<>>), JsString(<<"2">>), JsString(<<"1", "0">>)}

InitIssue ==
    /\ now = 0
    /\ qrTokenStore = [t \in {EarlierToken} |-> NewRecord(<<"0", "1", "2">>, <<"1">>)]
    /\ req = [r \in Reqs |-> IdleReq]
    /\ gen = [IdleGen EXCEPT !.res = 200]
    /\ qr_events = <<>>
    /\ smsSent = {[to |-> <<"0", "1", "2">>, token |-> EarlierToken]}

NextIssue ==
    \/ Tick
    \/ \E p \in PhoneInputsWide, v \in ValidTimeInputsWide : GenerateStart(p, v)
    \/ GenerateQrOk
    \/ GenerateQrFail
    \/ GenerateSmsOk
    \/ GenerateSmsFail
    \/ \E token \in QueryTokens \cup {EarlierToken} : VerifyStart(1, token)
    \/ VerifyGetOk(1)
    \/ VerifyGetFail(1)
    \/ VerifyPostOk(1)
    \/ VerifyPostFail(1)

SpecIssue == InitIssue /\ [][NextIssue]_vars

\* ------------------------------------------------------------ properties
Done(r) == req[r].pc = "done"
\* request r arrived in this step, for token t
Arrives(r, t) == req[r].pc = "idle" /\ req'[r].pc # "idle" /\ req'[r].token = t
\* r1 and r2 are the only requests that were made for their common token
OnlyPair(r1, r2) ==
    /\ req[r1].token = req[r2].token
    /\ \A q \in Reqs \ {r1, r2} :
          req[q].pc = "idle" \/ req[q].token # req[r1].token
\* no request for t found it past expiresAt (such a request ends at line 119)
NeverScannedLate(t) ==
    \A r \in Reqs : ~(req[r].pc # "idle" /\ req[r].token = t /\ req[r].exit = 119)

\* C1: of two verification requests for the same stored, unexpired token, the
\* only ones made for it, with every external call answered, one is answered
\* 200 and the other 409: they never both finalize.
C1_ExactlyOneSucceeds ==
    \A r1, r2 \in Reqs :
        (/\ r1 < r2 /\ Done(r1) /\ Done(r2) /\ OnlyPair(r1, r2)
         /\ req[r1].token \in DOMAIN qrTokenStore
         /\ req[r1].err = "none" /\ req[r2].err = "none"
         /\ req[r1].exit \notin {114, 119} /\ req[r2].exit \notin {114, 119})
        => {req[r1].res, req[r2].res} = {200, 409}

\* C2: a token that was never scanned past expiresAt is answered Verified
\* (200) at most once over all the requests made for it.
C2_VerifiedExactlyOnce ==
    \A t \in DOMAIN qrTokenStore :
        NeverScannedLate(t) =>
            Cardinality({r \in Reqs : req[r].pc # "idle" /\ req[r].token = t
                                         /\ req[r].res = 200}) <= 1

RescanExpiredAgain ==
    \A r1, r2 \in Reqs :
        (r1 < r2 /\ req[r1].exit = 119 /\ Done(r2) /\ req[r2].token = req[r1].token)
        => req[r2].res = 410 /\ req[r2].exit = 119

C4_StatusMonotonic ==
    [][\A t \in DOMAIN qrTokenStore :
          qrTokenStore[t].status # StatusPending
          => qrTokenStore'[t].status = qrTokenStore[t].status]_vars

C6_GetFailureLeavesPending ==
    [][\A r \in Reqs :
          /\ (req[r].pc = "idle" /\ req'[r].pc = "awaitGet")
             => qrTokenStore' = qrTokenStore /\ qr_events' = qr_events
          /\ (req[r].pc = "awaitGet" /\ req'[r].pc = "done")
             => /\ req'[r].exit = 140 /\ req'[r].res = 0
                /\ qr_events' = qr_events
                /\ DOMAIN qrTokenStore' = DOMAIN qrTokenStore
                /\ \A t \in DOMAIN qrTokenStore :
                      qrTokenStore'[t].isValid = qrTokenStore[t].isValid
                      /\ qrTokenStore'[t].status = qrTokenStore[t].status]_vars

\* a request ended on the failed GET and its record is Pending and valid
C6_Witness ==
    \E r \in Reqs :
        /\ Done(r) /\ req[r].exit = 140
        /\ qrTokenStore[req[r].token].status = StatusPending
        /\ qrTokenStore[req[r].token].isValid

\* C7: when the POST fails the request ends without a change of the store:
\* a record that was Pending and valid is Pending and valid afterwards.
C7_PostFailureLeavesPending ==
    [][\A r \in Reqs :
          (req[r].pc = "awaitPost" /\ req'[r].pc = "done" /\ req'[r].err # "none")
          => /\ req'[r].exit = 159 /\ req'[r].res = 0
             /\ qr_events' = qr_events
             /\ DOMAIN qrTokenStore' = DOMAIN qrTokenStore
             /\ \A t \in DOMAIN qrTokenStore :
                   qrTokenStore'[t].isValid = qrTokenStore[t].isValid
                   /\ qrTokenStore'[t].status = qrTokenStore[t].status]_vars

\* a request ended on the failed POST and its record is Pending and valid
C7_Witness ==
    \E r \in Reqs :
        /\ Done(r) /\ req[r].exit = 159
        /\ qrTokenStore[req[r].token].status = StatusPending
        /\ qrTokenStore[req[r].token].isValid

\* the external log holds an event built from the record of t
Posted(t) == \E i \in 1..Len(qr_events) : qr_events[i].token = t

\* C8: a request starts its POST only in the step in which its GET was
\* answered; a record becomes Verified only in the step in which the POST of
\* a request for it was answered and its event entered the log; so every
\* Verified record has an event in the log.
C8_GetThenPostThenFinalize ==
    [][/\ \A r \in Reqs :
            (req'[r].pc = "awaitPost" /\ req[r].pc # "awaitPost")
            => req[r].pc = "awaitGet"
       /\ \A t \in DOMAIN qrTokenStore :
            (qrTokenStore'[t].status = StatusVerified
               /\ qrTokenStore[t].status # StatusVerified)
            => \E r \in Reqs :
                  /\ req[r].pc = "awaitPost" /\ req[r].token = t
                  /\ req'[r].res = 200
                  /\ qr_events' = Append(qr_events, req[r].payload)
       /\ \A t \in DOMAIN qrTokenStore' :
            qrTokenStore'[t].status = StatusVerified => Posted(t)']_vars

\* a record is Verified, its event is in the log and its request got 200
C8_Witness ==
    \E r \in Reqs :
        /\ Done(r) /\ req[r].res = 200
        /\ qrTokenStore[req[r].token].status = StatusVerified
        /\ Posted(req[r].token)

\* the failure kind of a verification request that ended at source line `line`
Kind(line) ==
    CASE line = 114 -> "NotFound"
      [] line = 119 -> "Expired"
      [] line \in {122, 125} -> "AlreadyConsumed"
      [] line = 140 -> "UpstreamUnavailable"
      [] line = 159 -> "SubmissionFailure"
      [] OTHER -> "none"

\* what the caller can observe of an ended request: the status the handler
\* sent, or that the handler sent nothing and its promise was rejected (the
\* handler does not tell one exception from another)
Outcome(q) == [status |-> q.res, rejected |-> q.err # "none"]

\* C9: two requests that failed for different kinds of cause have different
\* caller-visible outcomes.
C9_DistinctOutcomePerKind ==
    \A r1, r2 \in Reqs :
        (/\ Done(r1) /\ Done(r2)
         /\ Kind(req[r1].exit) # "none" /\ Kind(req[r2].exit) # "none"
         /\ Kind(req[r1].exit) # Kind(req[r2].exit))
        => Outcome(req[r1]) # Outcome(req[r2])

\* C10: a request for a token that is no key of the store (no record was ever
\* issued for it) is answered 404 in the step in which it arrives, and that
\* step changes neither the store nor the external log.
C10_UnknownTokenNotFound ==
    [][\A r \in Reqs : \A t \in QueryTokens \ {NoToken} :
          (Arrives(r, t) /\ t \notin DOMAIN qrTokenStore)
          => /\ req'[r].pc = "done" /\ req'[r].res = 404
             /\ qrTokenStore' = qrTokenStore
             /\ qr_events' = qr_events]_vars

\* r ended for one of the two upstream failures
FailedUpstream(r) == Done(r) /\ req[r].exit \in {140, 159}

\* C11: a request for a stored token that arrived not past expiresAt and had
\* both external calls answered is answered 200 when every other request made
\* for the token, at least one of them earlier, failed upstream.
C11_RetryableAfterUpstreamFailure ==
    \A r \in Reqs :
        (/\ Done(r) /\ req[r].token \in DOMAIN qrTokenStore
         /\ req[r].err = "none" /\ req[r].exit \notin {114, 119}
         /\ \E q \in Reqs :
               q < r /\ req[q].token = req[r].token /\ FailedUpstream(q)
         /\ \A q \in Reqs \ {r} :
               (req[q].pc # "idle" /\ req[q].token = req[r].token)
               => FailedUpstream(q))
        => req[r].res = 200 /\ req[r].exit = 165

\* a request was answered 200 after an earlier one for the token failed upstream
C11_Witness ==
    \E q, r \in Reqs :
        /\ q < r /\ req[q].token = req[r].token
        /\ FailedUpstream(q) /\ Done(r) /\ req[r].res = 200

\* C15: a request for a stored record is answered 410 exactly when the time
\* of its arrival is strictly greater than expiresAt, whatever isValid and
\* status are; it then leaves the record invalid and Expired, and otherwise
\* leaves the store as it was.
C15_ExpiryCheckedFirst ==
    [][\A r \in Reqs : \A t \in DOMAIN qrTokenStore :
          Arrives(r, t) =>
            LET late == qrTokenStore[t].expiresAt # NaN
                        /\ now > qrTokenStore[t].expiresAt
            IN  /\ late <=> (req'[r].res = 410 /\ req'[r].exit = 119)
                /\ late => /\ ~qrTokenStore'[t].isValid
                           /\ qrTokenStore'[t].status = StatusExpired
                /\ ~late => qrTokenStore' = qrTokenStore]_vars

\* a record that one request had verified was found expired by a later one
C15_Witness ==
    \E q, r \in Reqs :
        /\ q < r /\ req[q].token = req[r].token
        /\ req[q].res = 200 /\ req[r].exit = 119
        /\ qrTokenStore[req[r].token].status = StatusExpired

\* C17: in every record isValid is true exactly when status is Pending, and
\* no request is rejected at line 125 (status not Pending with isValid true).
C17_ValidIffPending ==
    /\ \A t \in DOMAIN qrTokenStore :
          qrTokenStore[t].isValid <=> qrTokenStore[t].status = StatusPending
    /\ \A r \in Reqs : req[r].exit # 125

\* a Verified, invalid record was scanned again and rejected at line 122
C17_Witness ==
    \E r \in Reqs :
        /\ Done(r) /\ req[r].exit = 122
        /\ req[r].token \in DOMAIN qrTokenStore
        /\ qrTokenStore[req[r].token].status = StatusVerified
        /\ ~qrTokenStore[req[r].token].isValid

\* C18: the step that answers 200 and sets the status to Verified happens at
\* a time not greater than the record's expiresAt.
C18_NeverVerifiedAfterExpiry ==
    [][\A r \in Reqs :
          (req[r].pc = "awaitPost" /\ req'[r].res = 200)
          => ~JsGt(now', qrTokenStore[req[r].token].expiresAt)]_vars

\* C19: the external log holds at most one event per token, and every event
\* in it carries the status Pending.
C19_OneEventPerTokenPending ==
    /\ \A t \in Tokens :
          Cardinality({i \in 1..Len(qr_events) : qr_events[i].token = t}) <= 1
    /\ \A i \in 1..Len(qr_events) : qr_events[i].data.status = StatusPending

\* C20: every request whose handler has ended was sent a response by the
\* handler.
C20_EveryEndedRequestAnswered ==
    \A r \in Reqs : Done(r) => req[r].res # 0

\* a field of the request body that is there and is not the empty string
Present(v) == v # JsUndefined /\ v # JsString(<<>>)

\* out is text with every hyphen taken out and nothing else changed
HyphensRemoved(text, out) ==
    /\ \A i \in 1..Len(out) : out[i] # "-"
    /\ Len(out) = Cardinality({i \in 1..Len(text) : text[i] # "-"})
    /\ \A i \in 1..Len(text) :
          text[i] # "-"
          => out[Cardinality({j \in 1..i : text[j] # "-"})] = text[i]

\* the durations of the request bodies: the text and the minutes it denotes
DurationInputs == {<<<<"1">>, 1>>, <<<<"2">>, 2>>, <<<<"1", "0">>, 10>>}

\* C12: an issuance request with a phone number and a duration adds exactly
\* one record, under a token that was no key of the store, and changes no
\* other record; the new record is Pending and valid, holds the phone number
\* without its hyphens and expires duration * 60000 ms after the request.
C12_IssuanceStoresOneRecord ==
    [][\A p \in PhoneInputsWide : \A v \in ValidTimeInputsWide :
          (Present(p) /\ Present(v) /\ GenerateStart(p, v))
          => \E token \in DOMAIN qrTokenStore' \ DOMAIN qrTokenStore :
                /\ DOMAIN qrTokenStore' = DOMAIN qrTokenStore \cup {token}
                /\ \A t \in DOMAIN qrTokenStore : qrTokenStore'[t] = qrTokenStore[t]
                /\ qrTokenStore'[token].status = StatusPending
                /\ qrTokenStore'[token].isValid
                /\ HyphensRemoved(p.s, qrTokenStore'[token].phoneNumber)
                /\ \E d \in DurationInputs :
                      /\ d[1] = v.s
                      /\ qrTokenStore'[token].expiresAt = now + d[2] * 60000]_vars

\* a second record was just stored for the body ("-7-", "10")
C12_Witness ==
    /\ gen.pc = "awaitQr"
    /\ EarlierToken \in DOMAIN qrTokenStore
    /\ gen.token \in DOMAIN qrTokenStore \ {EarlierToken}
    /\ qrTokenStore[gen.token].phoneNumber = <<"7">>
    /\ qrTokenStore[gen.token].expiresAt = now + 600000
    /\ now > 0

\* C13: when the QR rendering or the SMS dispatch fails, the request is
\* answered 500 and the store is left as it is: the record the request
\* stored is still there, and Pending and valid if it was before the failure.
C13_DeliveryFailureKeepsRecord ==
    [][(gen.pc \in {"awaitQr", "awaitSms"} /\ gen'.pc = "idle" /\ gen'.res # 200)
       => /\ gen'.res = 500
          /\ smsSent' = smsSent
          /\ DOMAIN qrTokenStore' = DOMAIN qrTokenStore
          /\ gen.token \in DOMAIN qrTokenStore'
          /\ \A t \in DOMAIN qrTokenStore : qrTokenStore'[t] = qrTokenStore[t]
          /\ (qrTokenStore[gen.token].isValid
                /\ qrTokenStore[gen.token].status = StatusPending)
             => (qrTokenStore'[gen.token].isValid
                  /\ qrTokenStore'[gen.token].status = StatusPending)]_vars

\* an issuance was answered 500, no message was sent for its token, and its
\* record is in the store, Pending and valid
C13_Witness ==
    /\ gen.pc = "idle" /\ gen.res = 500
    /\ \E t \in Tokens \cap DOMAIN qrTokenStore :
          /\ qrTokenStore[t].isValid /\ qrTokenStore[t].status = StatusPending
          /\ \A m \in smsSent : m.token # t

\* C14: an issuance request without phone number or without duration is
\* answered 400 and ends at once; it changes neither the store nor the set of
\* messages sent.
C14_MissingInputBadRequest ==
    [][\A p \in PhoneInputsWide : \A v \in ValidTimeInputsWide :
          ((~Present(p) \/ ~Present(v)) /\ GenerateStart(p, v))
          => /\ gen'.pc = "idle" /\ gen'.res = 400
             /\ qrTokenStore' = qrTokenStore
             /\ smsSent' = smsSent]_vars

\* an issuance was answered 400 and the store holds the earlier record only
C14_Witness ==
    /\ gen.pc = "idle" /\ gen.res = 400
    /\ DOMAIN qrTokenStore = {EarlierToken}
    /\ smsSent = {[to |-> <<"0", "1", "2">>, token |-> EarlierToken]}

\* the fields of a record that no request writes after issuance
Fixed(rec) == <<rec.phoneNumber, rec.expiresAt, rec.purpose, rec.device_id>>

\* C16: a step of a verification request keeps the keys of the store, the
\* phoneNumber, expiresAt, purpose and device_id of every record, and every
\* record but the one of its token; a step of an issuance request keeps every
\* record that is in the store.
C16_FrameOfRequests ==
    [][/\ req' # req
          => /\ DOMAIN qrTokenStore' = DOMAIN qrTokenStore
             /\ \A t \in DOMAIN qrTokenStore :
                   /\ Fixed(qrTokenStore'[t]) = Fixed(qrTokenStore[t])
                   /\ (\A r \in Reqs : req'[r] # req[r] => req'[r].token # t)
                      => qrTokenStore'[t] = qrTokenStore[t]
       /\ gen' # gen
          => \A t \in DOMAIN qrTokenStore :
                t \in DOMAIN qrTokenStore' /\ qrTokenStore'[t] = qrTokenStore[t]]_vars

\* the store holds two records: one was verified, the other is untouched
C16_Witness ==
    \E t, u \in DOMAIN qrTokenStore :
        /\ t # u
        /\ req[1].token = t /\ req[1].res = 200
        /\ qrTokenStore[t].status = StatusVerified
        /\ qrTokenStore[u].status = StatusPending

====
